---- MODULE Spec2Model ----
(***************************************************************************)
(* Aegis Orchestrator: the CLI entry point (main.py), the HTTP handler     *)
(* (AegisRequestHandler.do_POST) and OrchestratorApp.process_repository.   *)
(*                                                                         *)
(* Python values are tagged records: None is [t |-> "NoneType"], a str is  *)
(* [t |-> "str", v |-> s], a list is [t |-> "list", v |-> <<...>>], an int *)
(* is [t |-> "int", v |-> n].  A dict is a function whose DOMAIN is the    *)
(* set of keys it holds, so that d.get(k, default) and d[k] differ as they *)
(* do in Python.                                                           *)
(***************************************************************************)
EXTENDS Integers, Sequences, FiniteSets, TLC

VARIABLES
    pc,           \* position of the process started by main()
    args,         \* the parsed command line (argparse namespace)
    request,      \* the POST request being handled
    final_state,  \* what self.workflow.invoke(initial_state) did
    result,       \* what process_repository returned (or raised) to its caller
    sent,         \* the status lines the handler passed to send_response, in order
    exit_code,    \* the exit code of the process, -1 while it runs
    invoked,      \* the initial_state records handed to workflow.invoke
    apps,         \* OrchestratorApp objects constructed for this invocation
    caught,       \* <<origin, place>>: an exception of that origin was caught there
    rec,          \* the state dicts alive in the process, by identity
    cell,         \* cell[r]: the dict call r of process_repository works on, 0 before it starts
    run_pc,       \* where call r of process_repository is
    run_args,     \* the arguments call r's caller was started with
    hist,         \* hist[r]: the current_state values call r's record went through
    run_result    \* what call r returned

surfaceVars == <<pc, args, request, final_state, result, sent, exit_code, invoked, apps, caught>>
runVars == <<rec, cell, run_pc, run_args, hist, run_result>>
vars == <<surfaceVars, runVars>>

-----------------------------------------------------------------------------
(* Bounds *)

\* longest vulnerabilities / reviewed_fixes list a final state carries
MaxFindings == 1

-----------------------------------------------------------------------------
(* Python values *)

None_ == [t |-> "NoneType"]
Str(s) == [t |-> "str", v |-> s]
Num(n) == [t |-> "int", v |-> n]
List(q) == [t |-> "list", v |-> q]
Dict(f) == [t |-> "dict", v |-> f]

\* bool(x), as `if x` / `not x` evaluate it
Truthy(x) ==
    CASE x.t = "NoneType" -> FALSE
      [] x.t = "str"      -> x.v # ""
      [] x.t = "int"      -> x.v # 0
      [] x.t = "list"     -> Len(x.v) > 0
      [] x.t = "dict"     -> DOMAIN x.v # {}
      [] OTHER            -> TRUE

\* len(x): of the values a state dict holds, lists and dicts have a length;
\* len(None) raises TypeError
Sized(x) == x.t \in {"list", "dict"}
PyLen(x) == IF x.t = "list" THEN Len(x.v) ELSE Cardinality(DOMAIN x.v)

\* d.get(k, default)
Get(d, k, default) == IF k \in DOMAIN d THEN d[k] ELSE default

NoArgs == [repo_url |-> None_, server |-> FALSE,
           list_vulnerabilities |-> FALSE, dry_run |-> FALSE]
NoRequest == [path |-> "", body |-> "none"]
NotInvoked == [kind |-> "none"]
NoResult == [kind |-> "none"]

Return(value) == [kind |-> "return", value |-> value]
Raise(type, msg) == [kind |-> "raise", type |-> type, msg |-> msg]

-----------------------------------------------------------------------------
(* agents.workflow: the stage enum *)

StageOrder == <<"INITIALIZE", "SCAN", "RESEARCH", "FIX", "REVIEW",
                "PUBLISH", "SUMMARIZE", "COMPLETE">>
WorkflowState == {StageOrder[i] : i \in 1..Len(StageOrder)} \cup {"ERROR"}

\* WorkflowState.<member>.value
WorkflowStateValue(s) ==
    CASE s = "INITIALIZE" -> "initialize"
      [] s = "SCAN"       -> "scan"
      [] s = "RESEARCH"   -> "research"
      [] s = "FIX"        -> "fix"
      [] s = "REVIEW"     -> "review"
      [] s = "PUBLISH"    -> "publish"
      [] s = "SUMMARIZE"  -> "summarize"
      [] s = "COMPLETE"   -> "complete"
      [] s = "ERROR"      -> "error"

-----------------------------------------------------------------------------
(* OrchestratorApp.process_repository *)

\* the literal with a wrong first stage
InitialState_AtScan(repo_url) ==
    [repo_url         |-> repo_url,
     repo_path        |-> None_,
     branch_name      |-> None_,
     current_state    |-> "SCAN",
     error_message    |-> None_,
     vulnerabilities  |-> List(<<>>),
     research_results |-> Dict(<<>>),
     fixes            |-> List(<<>>),
     reviewed_fixes   |-> List(<<>>),
     pull_request_url |-> None_,
     summary_report   |-> None_]

\* the dict literal of lines 61-74 (messages left out: nothing reads it)
InitialState(repo_url) ==
    [repo_url         |-> repo_url,
     repo_path        |-> None_,
     branch_name      |-> None_,
     current_state    |-> "INITIALIZE",
     error_message    |-> None_,
     vulnerabilities  |-> List(<<>>),
     research_results |-> Dict(<<>>),
     fixes            |-> List(<<>>),
     reviewed_fixes   |-> List(<<>>),
     pull_request_url |-> None_,
     summary_report   |-> None_]

\* lines 81-85
ErrorOutcome(fs) ==
    [status        |-> "error",
     error         |-> Get(fs, "error_message", Str("Unknown error occurred")),
     fixes_applied |-> 0]

\* the success payload with fixes_applied counted from the wrong list
SuccessOutcome_WrongCount(fs) ==
    [status                |-> "success",
     fixes_applied         |-> PyLen(Get(fs, "vulnerabilities", List(<<>>))),
     vulnerabilities_found |-> PyLen(Get(fs, "vulnerabilities", List(<<>>))),
     pull_request          |->
         [url    |-> Get(fs, "pull_request_url", None_),
          status |-> IF Truthy(Get(fs, "pull_request_url", None_))
                     THEN "created" ELSE "not_created"],
     summary_report        |-> Get(fs, "summary_report", None_),
     workflow_state        |-> WorkflowStateValue(fs["current_state"])]

\* lines 88-98
SuccessOutcome(fs) ==
    [status                |-> "success",
     fixes_applied         |-> PyLen(Get(fs, "reviewed_fixes", List(<<>>))),
     vulnerabilities_found |-> PyLen(Get(fs, "vulnerabilities", List(<<>>))),
     pull_request          |->
         [url    |-> Get(fs, "pull_request_url", None_),
          status |-> IF Truthy(Get(fs, "pull_request_url", None_))
                     THEN "created" ELSE "not_created"],
     summary_report        |-> Get(fs, "summary_report", None_),
     workflow_state        |-> WorkflowStateValue(fs["current_state"])]

\* lines 102-108
IncompleteOutcome(fs) ==
    [status                |-> "incomplete",
     fixes_applied         |-> PyLen(Get(fs, "reviewed_fixes", List(<<>>))),
     vulnerabilities_found |-> PyLen(Get(fs, "vulnerabilities", List(<<>>))),
     final_state           |-> WorkflowStateValue(fs["current_state"]),
     message               |-> "Workflow did not complete all steps"]

\* the branch without its final else: every record that is not ERROR is a success
Interpret_NoElse(fs) ==
    IF fs["current_state"] = "ERROR" THEN ErrorOutcome(fs) ELSE SuccessOutcome(fs)

\* lines 80-108: the three-way branch on final_state["current_state"]
Interpret(fs) ==
    IF fs["current_state"] = "ERROR" THEN ErrorOutcome(fs)
    ELSE IF fs["current_state"] = "COMPLETE" THEN SuccessOutcome(fs)
    ELSE IncompleteOutcome(fs)

\* lines 57-108, the body of the try: what it returns or raises
TryBody(wf) ==
    IF wf.kind = "raise" THEN wf
    ELSE IF "current_state" \notin DOMAIN wf.state
         THEN Raise("KeyError", "'current_state'")
    ELSE IF /\ wf.state["current_state"] # "ERROR"
            /\ \/ ~Sized(Get(wf.state, "reviewed_fixes", List(<<>>)))
               \/ ~Sized(Get(wf.state, "vulnerabilities", List(<<>>)))
         THEN Raise("TypeError", "object of type 'NoneType' has no len()")
    ELSE Return(Interpret(wf.state))

\* lines 110-116
ExceptOutcome(e) ==
    [status        |-> "error",
     error         |-> Str("Workflow execution failed: " \o e.msg),
     fixes_applied |-> 0]

\* the body without its except clause
process_repository_NoExcept(wf) == TryBody(wf)

\* lines 57-116: try ... except Exception
process_repository(wf) ==
    IF TryBody(wf).kind = "raise"
    THEN Return(ExceptOutcome(TryBody(wf)))
    ELSE TryBody(wf)

\* where a failure of the workflow invocation is caught, given what the
\* caller sees
WorkflowCatches(wf, r, place) ==
    IF TryBody(wf).kind # "raise" THEN {}
    ELSE IF r.kind = "return" THEN {<<"workflow", "process_repository">>}
    ELSE IF place = "" THEN {}
    ELSE {<<"workflow", place>>}

-----------------------------------------------------------------------------
(* The environment: what the collaborators can do *)

Urls == {"https://git.example/repo"}
ExceptionTypes == {"ValueError", "RuntimeError"}

ListsUpTo(n) == {List([i \in 1..k |-> i]) : k \in 0..n}

Absent == [t |-> "absent"]
Strip(d) == [k \in {j \in DOMAIN d : d[j].t # "absent"} |-> d[k]]

\* the records workflow.invoke can return: every stage, every optional key
\* present or missing
FinalStates ==
    { [k \in DOMAIN Strip(d) \cup {"current_state"} |->
          IF k = "current_state" THEN s ELSE d[k]] :
      s \in WorkflowState,
      d \in [error_message    : {Absent, None_, Str("clone failed")},
             vulnerabilities  : {Absent} \cup ListsUpTo(MaxFindings),
             reviewed_fixes   : {Absent} \cup ListsUpTo(MaxFindings),
             pull_request_url : {Absent, None_, Str("https://git.example/repo/pull/1")},
             summary_report   : {None_, Str("report")}] }

WorkflowOutcomes ==
    {[kind |-> "return", state |-> fs] : fs \in FinalStates}
    \cup {Raise(e, "boom") : e \in ExceptionTypes}

\* OrchestratorApp(): config.validate() and create_aegis_workflow() can raise
ConstructOutcomes == {"ok"} \cup ExceptionTypes

-----------------------------------------------------------------------------
(* main.py: main() *)

ArgSets ==
    [repo_url : {None_, Str("")} \cup {Str(u) : u \in Urls},
     server : BOOLEAN, list_vulnerabilities : BOOLEAN, dry_run : BOOLEAN]

\* line 95: `if not args.repo_url`
CliRepoUrlMissing(repo_url) == ~Truthy(repo_url)

\* lines 123-128
ExitCode(res) ==
    IF res["status"] = "success" THEN 0
    ELSE IF res["status"] = "error" THEN 1
    ELSE 2

\* lines 133-135: except (ValueError, ConnectionError, OSError)
MainCatches(type) == type \in {"ValueError", "ConnectionError", "OSError"}

\* lines 83-96: parse the arguments, enter server mode or require repo_url
Main(a) ==
    /\ pc = "main"
    /\ args' = a
    /\ IF a.server THEN pc' = "serving" /\ exit_code' = exit_code
       ELSE IF CliRepoUrlMissing(a.repo_url)
            THEN pc' = "exited" /\ exit_code' = 2    \* parser.error: SystemExit(2)
       ELSE pc' = "cli_init" /\ exit_code' = exit_code
    /\ UNCHANGED <<runVars, request, final_state, result, sent, invoked, apps, caught>>

\* line 99, and lines 133-135 when the constructor raises
CliCreateApp(c) ==
    /\ pc = "cli_init"
    /\ IF c = "ok"
       THEN /\ apps' = apps + 1
            /\ pc' = "cli_ready"
            /\ UNCHANGED <<exit_code, caught>>
       ELSE /\ pc' = "exited"
            /\ exit_code' = 1    \* return 1, or the traceback's exit status
            /\ caught' = IF MainCatches(c) THEN caught \cup {<<"constructor", "main">>}
                         ELSE caught
            /\ apps' = apps
    /\ UNCHANGED <<runVars, args, request, final_state, result, sent, invoked>>

\* lines 102-105
CliListVulnerabilities ==
    /\ pc = "cli_ready"
    /\ args.list_vulnerabilities
    /\ pc' = "exited"
    /\ exit_code' = 0
    /\ UNCHANGED <<runVars, args, request, final_state, result, sent, invoked, apps, caught>>

\* lines 107-114
CliProcess(wf) ==
    /\ pc = "cli_ready"
    /\ ~args.list_vulnerabilities
    /\ invoked' = Append(invoked, InitialState(args.repo_url))
    /\ final_state' = wf
    /\ result' = process_repository(wf)
    /\ caught' = caught \cup
                 WorkflowCatches(wf, process_repository(wf),
                                 IF process_repository(wf).kind = "raise"
                                    /\ MainCatches(process_repository(wf).type)
                                 THEN "main" ELSE "")
    /\ pc' = "cli_result"
    /\ UNCHANGED <<runVars, args, request, sent, exit_code, apps>>

\* lines 116-135
CliReport ==
    /\ pc = "cli_result"
    /\ pc' = "exited"
    /\ exit_code' = IF result.kind = "return" THEN ExitCode(result.value) ELSE 1
    /\ UNCHANGED <<runVars, args, request, final_state, result, sent, invoked, apps, caught>>

CliNext ==
    \/ \E a \in ArgSets : Main(a)
    \/ \E c \in ConstructOutcomes : CliCreateApp(c)
    \/ CliListVulnerabilities
    \/ \E wf \in WorkflowOutcomes : CliProcess(wf)
    \/ CliReport

-----------------------------------------------------------------------------
(* main.py: AegisRequestHandler.do_POST, under run_server's serve_forever *)

\* what json.loads(post_data) can give for the 'repo_url' key
JsonValues == {None_, Str(""), Num(0), Num(7), List(<<>>)} \cup {Str(u) : u \in Urls}

Bodies ==
    {[kind |-> "no_length"],      \* no Content-Length header: int(None) raises
     [kind |-> "malformed"],      \* json.loads raises
     [kind |-> "array"]}          \* a JSON value without .get
    \cup {[kind |-> "object", data |-> Strip([repo_url |-> v])] :
              v \in JsonValues \cup {Absent}}

\* a `repo_url is None` test in place of `not repo_url`
HttpRepoUrlMissing_NoneOnly(repo_url) == repo_url.t = "NoneType"

\* line 211: `if not repo_url`
HttpRepoUrlMissing(repo_url) == ~Truthy(repo_url)

Requests == [path : {"/analyze", "/other"}, body : Bodies]

\* lines 204-216 and 227-234: up to the repo_url check.  write_ok: whether
\* self.wfile.write succeeds (the client is still connected)
DoPostReceive(req, write_ok) ==
    /\ pc = "serving"
    /\ request' = req
    /\ IF req.path # "/analyze"
       THEN sent' = <<404>> /\ pc' = "responded" /\ caught' = caught
       ELSE IF req.body.kind # "object"
       THEN /\ sent' = <<500>>
            /\ pc' = "responded"
            /\ caught' = caught \cup {<<"request", "do_POST">>}
       ELSE IF HttpRepoUrlMissing(Get(req.body.data, "repo_url", None_))
       THEN /\ sent' = IF write_ok THEN <<400>> ELSE <<400, 500>>
            /\ pc' = "responded"
            /\ caught' = IF write_ok THEN caught
                         ELSE caught \cup {<<"response", "do_POST">>}
       ELSE sent' = <<>> /\ pc' = "http_init" /\ caught' = caught
    /\ UNCHANGED <<runVars, args, final_state, result, exit_code, invoked, apps>>

\* line 219, and lines 227-231 when the constructor raises
HttpCreateApp(c) ==
    /\ pc = "http_init"
    /\ IF c = "ok"
       THEN /\ apps' = apps + 1
            /\ pc' = "http_ready"
            /\ UNCHANGED <<sent, caught>>
       ELSE /\ sent' = Append(sent, 500)
            /\ pc' = "responded"
            /\ caught' = caught \cup {<<"constructor", "do_POST">>}
            /\ apps' = apps
    /\ UNCHANGED <<runVars, args, request, final_state, result, exit_code, invoked>>

\* line 220
HttpProcess(wf) ==
    /\ pc = "http_ready"
    /\ invoked' = Append(invoked, InitialState(Get(request.body.data, "repo_url", None_)))
    /\ final_state' = wf
    /\ result' = process_repository(wf)
    /\ caught' = caught \cup WorkflowCatches(wf, process_repository(wf), "do_POST")
    /\ pc' = "http_result"
    /\ UNCHANGED <<runVars, args, request, sent, exit_code, apps>>

\* lines 222-231.  write_ok: whether json.dumps(result) and self.wfile.write
\* both succeed after the 200 headers went out
HttpRespond(write_ok) ==
    /\ pc = "http_result"
    /\ IF result.kind = "raise"
       THEN sent' = Append(sent, 500) /\ caught' = caught
       ELSE IF write_ok
       THEN sent' = Append(sent, 200) /\ caught' = caught
       ELSE /\ sent' = sent \o <<200, 500>>
            /\ caught' = caught \cup {<<"response", "do_POST">>}
    /\ pc' = "responded"
    /\ UNCHANGED <<runVars, args, request, final_state, result, exit_code, invoked, apps>>

\* line 244: serve_forever takes the next request; nothing of the last one
\* is kept
ServeNext ==
    /\ pc = "responded"
    /\ pc' = "serving"
    /\ request' = NoRequest
    /\ final_state' = NotInvoked
    /\ result' = NoResult
    /\ sent' = <<>>
    /\ invoked' = <<>>
    /\ apps' = 0
    /\ caught' = {}
    /\ UNCHANGED <<runVars, args, exit_code>>

HttpNext ==
    \/ \E req \in Requests, w \in BOOLEAN : DoPostReceive(req, w)
    \/ \E c \in ConstructOutcomes : HttpCreateApp(c)
    \/ \E wf \in WorkflowOutcomes : HttpProcess(wf)
    \/ \E w \in BOOLEAN : HttpRespond(w)
    \/ ServeNext

-----------------------------------------------------------------------------
(* agents.workflow: the pipeline that workflow.invoke runs on the record,  *)
(* one stage at a time, for each call of process_repository                *)

\* two concurrent calls of process_repository
Runs == {1, 2}
Repos == Urls \cup {"https://git.example/other"}
RunArgs == [repo_url : Repos, dry_run : BOOLEAN]

NoRecord == [current_state |-> "none"]
NoRunArgs == [repo_url |-> "", dry_run |-> FALSE]

\* the ascending sequence of a set of ids
SortedSeq(S) ==
    CHOOSE q \in [1..Cardinality(S) -> S] :
        \A i, j \in 1..Cardinality(S) : i < j => q[i] < q[j]

Finding(r, i) == [run |-> r, id |-> i]
Ids(list) == {list.v[i].id : i \in 1..Len(list.v)}
Items(r, S) == List([i \in 1..Cardinality(S) |-> Finding(r, SortedSeq(S)[i])])

\* one module-level dict reused by every call
Alloc_Shared(r) == 1

\* line 61: initial_state is a dict built by the call, a new object each time
Alloc(r) == r

\* Abort(record, reason)
Abort(d, reason) ==
    [d EXCEPT !.current_state = "ERROR", !.error_message = Str(reason)]

\* the record of call r
Rec(r) == rec[cell[r]]

AtStage(r, s) == run_pc[r] = "running" /\ Rec(r).current_state = s

\* a stage of call r writes its record
Write(r, d) ==
    /\ rec' = [rec EXCEPT ![cell[r]] = d]
    /\ hist' = [hist EXCEPT ![r] = Append(@, d.current_state)]
    /\ UNCHANGED <<cell, run_pc, run_args, run_result, surfaceVars>>

\* main.py line 114 / line 220: the caller passes repo_url and nothing else;
\* orchestrator_app.py lines 57-77: the call builds its record and starts
\* the workflow on it
StartRun(r, a) ==
    /\ run_pc[r] = "idle"
    /\ run_args' = [run_args EXCEPT ![r] = a]
    /\ cell' = [cell EXCEPT ![r] = Alloc(r)]
    /\ rec' = [rec EXCEPT ![Alloc(r)] = InitialState(Str(a.repo_url))]
    /\ hist' = [hist EXCEPT ![r] = <<InitialState(Str(a.repo_url)).current_state>>]
    /\ run_pc' = [run_pc EXCEPT ![r] = "running"]
    /\ UNCHANGED <<run_result, surfaceVars>>

StageInitialize(r, ok) ==
    /\ AtStage(r, "INITIALIZE")
    /\ Write(r, IF ok
                THEN [Rec(r) EXCEPT !.repo_path = Str("/tmp/clone"),
                                    !.current_state = "SCAN"]
                ELSE Abort(Rec(r), "SourceUnavailable"))

StageScan(r, n, ok) ==
    /\ AtStage(r, "SCAN")
    /\ Write(r, IF ok
                THEN [Rec(r) EXCEPT !.vulnerabilities = Items(r, 1..n),
                                    !.current_state = "RESEARCH"]
                ELSE Abort(Rec(r), "ToolFailure"))

\* every finding gets an entry: a note, or a degraded note when its research
\* failed (the note's text is not modelled)
StageResearch(r, ok) ==
    /\ AtStage(r, "RESEARCH")
    /\ Write(r, IF ok
                THEN [Rec(r) EXCEPT
                        !.research_results =
                            Dict([i \in Ids(Rec(r).vulnerabilities) |-> "note"]),
                        !.current_state = "FIX"]
                ELSE Abort(Rec(r), "DependencyUnavailable"))

\* fixed: the findings the fix generator proposes a fix for
StageFix(r, fixed, ok) ==
    /\ AtStage(r, "FIX")
    /\ fixed \subseteq DOMAIN Rec(r).research_results.v
    /\ Write(r, IF ok
                THEN [Rec(r) EXCEPT !.fixes = Items(r, fixed),
                                    !.current_state = "REVIEW"]
                ELSE Abort(Rec(r), "DependencyUnavailable"))

\* accepted: the fixes that pass review
StageReview(r, accepted, ok) ==
    /\ AtStage(r, "REVIEW")
    /\ accepted \subseteq Ids(Rec(r).fixes)
    /\ Write(r, IF ok
                THEN [Rec(r) EXCEPT !.reviewed_fixes = Items(r, accepted),
                                    !.current_state = "PUBLISH"]
                ELSE Abort(Rec(r), "DependencyUnavailable"))

\* publication happens when there are reviewed fixes; the record holds no
\* dry-run flag for the stage to read
StagePublish(r, ok) ==
    /\ AtStage(r, "PUBLISH")
    /\ Write(r, IF ~Truthy(Rec(r).reviewed_fixes)
                THEN [Rec(r) EXCEPT !.current_state = "SUMMARIZE"]
                ELSE IF ok
                THEN [Rec(r) EXCEPT
                        !.branch_name = Str("aegis/fixes"),
                        !.pull_request_url = Str("https://git.example/pull/1"),
                        !.current_state = "SUMMARIZE"]
                ELSE Abort(Rec(r), "PublishFailure"))

StageSummarize(r) ==
    /\ AtStage(r, "SUMMARIZE")
    /\ Write(r, [Rec(r) EXCEPT !.summary_report = Str("report"),
                               !.current_state = "COMPLETE"])

\* orchestrator_app.py lines 77-108: workflow.invoke returns the record, the
\* call maps it to its outcome
ReturnRun(r) ==
    /\ run_pc[r] = "running"
    /\ Rec(r).current_state \in {"COMPLETE", "ERROR"}
    /\ run_result' = [run_result EXCEPT
                        ![r] = process_repository([kind |-> "return", state |-> Rec(r)])]
    /\ run_pc' = [run_pc EXCEPT ![r] = "returned"]
    /\ UNCHANGED <<rec, cell, run_args, hist, surfaceVars>>

\* orchestrator_app.py lines 77 and 110-116: a stage raises out of
\* workflow.invoke
StageRaises(r, e) ==
    /\ run_pc[r] = "running"
    /\ Rec(r).current_state \notin {"COMPLETE", "ERROR"}
    /\ run_result' = [run_result EXCEPT ![r] = process_repository(Raise(e, "boom"))]
    /\ run_pc' = [run_pc EXCEPT ![r] = "returned"]
    /\ UNCHANGED <<rec, cell, run_args, hist, surfaceVars>>

Init ==
    /\ pc = "main"
    /\ args = NoArgs
    /\ request = NoRequest
    /\ final_state = NotInvoked
    /\ result = NoResult
    /\ sent = <<>>
    /\ exit_code = -1
    /\ invoked = <<>>
    /\ apps = 0
    /\ caught = {}
    /\ rec = [c \in Runs |-> NoRecord]
    /\ cell = [r \in Runs |-> 0]
    /\ run_pc = [r \in Runs |-> "idle"]
    /\ run_args = [r \in Runs |-> NoRunArgs]
    /\ hist = [r \in Runs |-> <<>>]
    /\ run_result = [r \in Runs |-> NoResult]

RunNext ==
    \E r \in Runs :
        \/ \E a \in RunArgs : StartRun(r, a)
        \/ \E ok \in BOOLEAN : StageInitialize(r, ok)
        \/ \E n \in 0..MaxFindings, ok \in BOOLEAN : StageScan(r, n, ok)
        \/ \E ok \in BOOLEAN : StageResearch(r, ok)
        \/ \E f \in SUBSET (1..MaxFindings), ok \in BOOLEAN : StageFix(r, f, ok)
        \/ \E acc \in SUBSET (1..MaxFindings), ok \in BOOLEAN : StageReview(r, acc, ok)
        \/ \E ok \in BOOLEAN : StagePublish(r, ok)
        \/ StageSummarize(r)
        \/ ReturnRun(r)
        \/ \E e \in ExceptionTypes : StageRaises(r, e)

SpecRun == Init /\ [][RunNext]_vars

Next == CliNext \/ HttpNext

Spec == Init /\ [][Next]_vars

-----------------------------------------------------------------------------
(* Properties *)

Returned == result.kind = "return"
WorkflowReturned == final_state.kind = "return"

\* the outcome each stage must give
ExpectedStatus(s) ==
    CASE s = "ERROR"    -> "error"
      [] s = "COMPLETE" -> "success"
      [] OTHER          -> "incomplete"

\* the number of elements of list field k of record d, 0 when d has no k
Count(d, k) == IF k \in DOMAIN d THEN Len(d[k].v) ELSE 0

\* field k of record d is there and is not None
IsSet(d, k) == k \in DOMAIN d /\ d[k].t # "NoneType"

\* a non-empty string
NonEmptyStr(x) == x.t = "str" /\ x.v # ""

\* C1: whatever record the workflow ends with, process_repository returns
\* exactly the outcome of its stage: error for ERROR, success for COMPLETE,
\* incomplete for every other stage, and an incomplete outcome names the
\* stage reached.
C1_ExactlyOneOutcome ==
    (WorkflowReturned /\ result.kind # "none") =>
        /\ Returned
        /\ result.value.status \in {"success", "error", "incomplete"}
        /\ result.value.status = ExpectedStatus(final_state.state["current_state"])
        /\ result.value.status = "incomplete" =>
               result.value.final_state =
                   WorkflowStateValue(final_state.state["current_state"])

C1_Witness ==
    /\ WorkflowReturned
    /\ final_state.state["current_state"] = "REVIEW"
    /\ Returned
    /\ result.value.status = "incomplete"
    /\ result.value.final_state = "review"

\* C2: whenever process_repository returns status error, the error field is
\* a non-empty string.
C2_ErrorHasMessage ==
    (Returned /\ result.value.status = "error") => NonEmptyStr(result.value.error)

\* C3: for a record that ends in COMPLETE the outcome is success,
\* vulnerabilities_found is the number of vulnerabilities of the record,
\* fixes_applied the number of reviewed_fixes, and the pull request is
\* reported created exactly when pull_request_url is set.
C3_SuccessPayload ==
    (WorkflowReturned /\ result.kind # "none"
       /\ final_state.state["current_state"] = "COMPLETE") =>
        /\ Returned
        /\ result.value.status = "success"
        /\ result.value.vulnerabilities_found = Count(final_state.state, "vulnerabilities")
        /\ result.value.fixes_applied = Count(final_state.state, "reviewed_fixes")
        /\ (result.value.pull_request.status = "created")
               <=> IsSet(final_state.state, "pull_request_url")
        /\ IsSet(final_state.state, "pull_request_url") =>
               result.value.pull_request.url = final_state.state["pull_request_url"]
        /\ ~IsSet(final_state.state, "pull_request_url") =>
               result.value.pull_request.url = None_

\* findings were made, no fix was accepted, nothing was published: a success
\* with fixes_applied 0 and no pull request
C3_Witness ==
    /\ WorkflowReturned
    /\ final_state.state["current_state"] = "COMPLETE"
    /\ Count(final_state.state, "vulnerabilities") = 1
    /\ Count(final_state.state, "reviewed_fixes") = 0
    /\ ~IsSet(final_state.state, "pull_request_url")
    /\ Returned
    /\ result.value.status = "success"
    /\ result.value.fixes_applied = 0
    /\ result.value.pull_request.status = "not_created"

\* C4: when the workflow invocation raises, process_repository returns to
\* its caller (it does not raise): status error, fixes_applied 0, a message
\* built from the failure; and the failure is caught in process_repository
\* and nowhere else.
C4_WorkflowFailureIsAbort ==
    (final_state.kind = "raise" /\ result.kind # "none") =>
        /\ Returned
        /\ result.value.status = "error"
        /\ result.value.fixes_applied = 0
        /\ result.value.error = Str("Workflow execution failed: " \o final_state.msg)
        /\ {c \in caught : c[1] = "workflow"} = {<<"workflow", "process_repository">>}

C4_Witness ==
    /\ final_state.kind = "raise"
    /\ pc = "responded"
    /\ Returned
    /\ result.value.status = "error"
    /\ sent = <<200>>

\* C6: for every outcome process_repository returns, the CLI's exit code is
\* 0 exactly when the HTTP status answered for it is 2xx (taken where the
\* response was written without failure, so that one status was sent).
C6_SurfacesAgree ==
    (pc = "responded" /\ Returned /\ Len(sent) = 1) =>
        (ExitCode(result.value) = 0 <=> sent[1] \in 200..299)

\* C9: a POST /analyze without a repo_url, or with an empty one, is answered
\* 400 with no OrchestratorApp built and no workflow started; a CLI run
\* without --server and without a repo_url exits from the parser with code 2
\* before any OrchestratorApp is built; every record handed to the workflow
\* has a repo_url that is neither None nor empty.
C9_NoEmptyRepoUrl ==
    /\ \A i \in 1..Len(invoked) :
          /\ invoked[i].repo_url.t # "NoneType"
          /\ invoked[i].repo_url.t = "str" => invoked[i].repo_url.v # ""
    /\ (/\ pc \in {"http_init", "http_ready", "http_result", "responded"}
        /\ request.path = "/analyze"
        /\ request.body.kind = "object"
        /\ \/ "repo_url" \notin DOMAIN request.body.data
           \/ request.body.data["repo_url"].t = "NoneType"
           \/ request.body.data["repo_url"] = Str(""))
       => /\ pc = "responded"
          /\ sent[1] = 400
          /\ invoked = <<>>
          /\ apps = 0
    /\ (/\ pc # "main"
        /\ ~args.server
        /\ \/ args.repo_url.t = "NoneType"
           \/ args.repo_url = Str(""))
       => /\ pc = "exited"
          /\ exit_code = 2
          /\ invoked = <<>>
          /\ apps = 0

C9_Witness ==
    /\ pc = "responded"
    /\ request.path = "/analyze"
    /\ request.body.kind = "object"
    /\ "repo_url" \in DOMAIN request.body.data
    /\ request.body.data["repo_url"] = Str("")
    /\ sent = <<400>>
    /\ invoked = <<>>

\* C10: a POST /analyze is answered with exactly one status line.
C10_OneStatusLine ==
    (pc = "responded" /\ request.path = "/analyze") => Len(sent) = 1

\* C5: a run started with --dry-run creates no pull request: its record's
\* pull_request_url stays unset.
C5_DryRunNoPullRequest ==
    \A r \in Runs :
        (run_pc[r] # "idle" /\ run_args[r].dry_run) =>
            Rec(r).pull_request_url.t = "NoneType"

\* every element of the list is one call r made
OwnedBy(r, list) == \A i \in 1..Len(list.v) : list.v[i].run = r

\* C7: two calls of process_repository, however interleaved and whether or
\* not for the same repository, each start from a fresh record (INITIALIZE,
\* empty collections, optional fields unset), and each call's record and
\* outcome hold only what that call wrote.
C7_RunsIsolated ==
    \A r \in Runs :
        run_pc[r] # "idle" =>
            /\ Rec(r).repo_url = Str(run_args[r].repo_url)
            /\ Rec(r).current_state = hist[r][Len(hist[r])]
            /\ Len(hist[r]) = 1 =>
                   /\ Rec(r).current_state = "INITIALIZE"
                   /\ Rec(r).vulnerabilities = List(<<>>)
                   /\ DOMAIN Rec(r).research_results.v = {}
                   /\ Rec(r).fixes = List(<<>>)
                   /\ Rec(r).reviewed_fixes = List(<<>>)
                   /\ Rec(r).repo_path = None_
                   /\ Rec(r).branch_name = None_
                   /\ Rec(r).error_message = None_
                   /\ Rec(r).pull_request_url = None_
                   /\ Rec(r).summary_report = None_
            /\ OwnedBy(r, Rec(r).vulnerabilities)
            /\ OwnedBy(r, Rec(r).fixes)
            /\ OwnedBy(r, Rec(r).reviewed_fixes)
            /\ (run_pc[r] = "returned" /\ run_result[r].value.status = "success") =>
                   /\ run_result[r].value.vulnerabilities_found
                          = Len(Rec(r).vulnerabilities.v)
                   /\ run_result[r].value.fixes_applied
                          = Len(Rec(r).reviewed_fixes.v)

\* call 1 has scanned and reviewed while call 2, for the same repository,
\* has only just started
C7_Witness ==
    /\ run_pc[1] = "running"
    /\ run_pc[2] = "running"
    /\ run_args[1].repo_url = run_args[2].repo_url
    /\ Rec(1).current_state = "PUBLISH"
    /\ Len(Rec(1).vulnerabilities.v) > 0
    /\ Len(hist[2]) = 1

IsPrefix(p, q) == Len(p) <= Len(q) /\ \A i \in 1..Len(p) : p[i] = q[i]

\* C8: the current_state values a run's record goes through are a prefix of
\* INITIALIZE, SCAN, RESEARCH, FIX, REVIEW, PUBLISH, SUMMARIZE, COMPLETE,
\* or such a prefix followed by one ERROR, after which nothing follows.
C8_MonotonicStages ==
    \A r \in Runs :
        hist[r] # <<>> =>
            \/ IsPrefix(hist[r], StageOrder)
            \/ /\ Len(hist[r]) >= 2
               /\ hist[r][Len(hist[r])] = "ERROR"
               /\ IsPrefix(SubSeq(hist[r], 1, Len(hist[r]) - 1), StageOrder)

\* one call went through every stage, the other was aborted at REVIEW
C8_Witness ==
    /\ hist[1] = StageOrder
    /\ hist[2] = <<"INITIALIZE", "SCAN", "RESEARCH", "FIX", "REVIEW", "ERROR">>
    /\ run_pc[2] = "returned"

====
